---------------------------- MODULE Spec2Model ----------------------------
(***************************************************************************)
(* mijiamon: Xiaomi Mijia sensor monitor.                                   *)
(*                                                                          *)
(* Three parts of the repository are modelled, each with its own           *)
(* specification over its own variables:                                    *)
(*   SpecDecode  the two advertisement payload decoders (pure functions)    *)
(*   Spec        the passive pipeline: registration, advHandler/advFilter,  *)
(*               sensor.processAdv, sensor.flush and the flush goroutine    *)
(*   SpecPoll    the active poller: Sensor.Run / Sensor.poll in its two     *)
(*               variants, and the results consumer of main                 *)
(*                                                                          *)
(* Numbers: a decoded value is kept as an exact fraction [n, d], so that    *)
(* float64(x) / 100 is the record [n |-> x, d |-> 100]; int(b) has d = 1.   *)
(* Go indexes from 0, TLA+ sequences from 1: Index and Slice take the Go    *)
(* offsets.                                                                  *)
(***************************************************************************)
EXTENDS Integers, Sequences, FiniteSets, TLC

(***************************************************************************)
(* Bounds of the model.                                                     *)
(***************************************************************************)
\* longest service-data payload drawn (the decoders index up to offset 17)
MaxPayloadLen == 19
\* bytes of the backing array past len(b) when the slice has spare capacity
MaxExtra == 4
\* advertisements the transport delivers in one run
MaxAdvs == 2

(***************************************************************************)
(* Byte slices.  A Go slice []byte is modelled by its visible bytes b and   *)
(* the bytes of its backing array between len and cap (tail): a slice       *)
(* expression b[lo:hi] is legal up to cap(b), an index b[i] up to len(b).  *)
(***************************************************************************)
ByteSamples == {1, 4, 9, 71, 255}

Pattern(q, n, from) == [i \in 1..n |-> q[((from + i - 1) % Len(q)) + 1]]

MkSlice(q, n, extra) == [b |-> Pattern(q, n, 0), tail |-> Pattern(q, extra, n)]

GoLen(p) == Len(p.b)

GoCap(p) == Len(p.b) + Len(p.tail)

Backing(p) == p.b \o p.tail

\* b[i]: run-time panic when i is out of range of len(b)
IndexPanics(p, i) == i >= GoLen(p)

Index(p, i) == p.b[i + 1]

\* b[lo:hi]: run-time panic when hi exceeds cap(b)
SlicePanics(p, lo, hi) == hi > GoCap(p)

Slice(p, lo, hi) == SubSeq(Backing(p), lo + 1, hi)

(***************************************************************************)
(* encoding/binary and the integer conversions the decoders use.           *)
(***************************************************************************)
LittleEndianUint16(s) == s[1] + 256 * s[2]

Uint16AsUnsigned(u) == u

\* int16(u) of a uint16: two's complement reinterpretation
Int16(u) == IF u >= 32768 THEN u - 65536 ELSE u

Frac(n, d) == [n |-> n, d |-> d]

(***************************************************************************)
(* type Data map[string]interface{}                                         *)
(***************************************************************************)
EmptyData == [k \in {} |-> Frac(0, 1)]

Returned(data) == [panic |-> FALSE, data |-> data]

Panicked == [panic |-> TRUE, data |-> EmptyData]

MkData3(t, h, bat) == [k \in {"temperature", "humidity", "battery_pct"} |->
        CASE k = "temperature" -> t
          [] k = "humidity" -> h
          [] OTHER -> bat]

MkData2(t, h) == [k \in {"temperature", "humidity"} |->
        IF k = "temperature" THEN t ELSE h]

MkData1(bat) == [k \in {"battery_pct"} |-> bat]

(***************************************************************************)
(* func processAdvLYWSD03MMC(b []byte) Data                                 *)
(***************************************************************************)
ScaleLYWSD03MMC == 100

ProcessAdvLYWSD03MMC_AnyLength(p) ==
    IF SlicePanics(p, 8, 10) \/ IndexPanics(p, 12)
    THEN Panicked
    ELSE Returned(MkData3(
            Frac(Int16(LittleEndianUint16(Slice(p, 6, 8))), ScaleLYWSD03MMC),
            Frac(LittleEndianUint16(Slice(p, 8, 10)), ScaleLYWSD03MMC),
            Frac(Index(p, 12), 1)))

ProcessAdvLYWSD03MMC(p) ==
    IF GoLen(p) = 15
    THEN Returned(MkData3(
            Frac(Int16(LittleEndianUint16(Slice(p, 6, 8))), ScaleLYWSD03MMC),
            Frac(LittleEndianUint16(Slice(p, 8, 10)), ScaleLYWSD03MMC),
            Frac(Index(p, 12), 1)))
    ELSE Returned(EmptyData)

(***************************************************************************)
(* func processAdvLYWSDCGQ(b []byte) Data                                   *)
(* No length check: b[13] and b[14] panic past len(b), b[14:16] and         *)
(* b[16:18] panic past cap(b) and otherwise read the backing array.         *)
(***************************************************************************)
ScaleLYWSDCGQ == 10

ProcessAdvLYWSDCGQ(p) ==
    IF IndexPanics(p, 13) THEN Panicked
    ELSE CASE Index(p, 13) = 1 ->
                IF IndexPanics(p, 14) THEN Panicked
                ELSE Returned(MkData1(Frac(Index(p, 14), 1)))
           [] Index(p, 13) = 4 ->
                IF SlicePanics(p, 14, 16) \/ SlicePanics(p, 16, 18) THEN Panicked
                ELSE Returned(MkData2(
                        Frac(Int16(LittleEndianUint16(Slice(p, 14, 16))), ScaleLYWSDCGQ),
                        Frac(LittleEndianUint16(Slice(p, 16, 18)), ScaleLYWSDCGQ)))
           [] OTHER -> Returned(EmptyData)

\* the processor field of a sensor, selected by the configured type
SensorTypes == {"LYWSD03MMC", "LYWSDCGQ/01ZM"}

Processor(type, p) ==
    IF type = "LYWSD03MMC" THEN ProcessAdvLYWSD03MMC(p) ELSE ProcessAdvLYWSDCGQ(p)

(***************************************************************************)
(* Configuration and the advertisements of the passive pipeline.  A MAC is  *)
(* a sequence of characters so that strings.ToLower is computed.            *)
(***************************************************************************)
LowerChar(c) ==
    CASE c = "A" -> "a"
      [] c = "B" -> "b"
      [] c = "C" -> "c"
      [] OTHER -> c

\* strings.ToLower(s.Mac)
ToLower(mac) == [i \in DOMAIN mac |-> LowerChar(mac[i])]

ConfGood == <<
        [Mac |-> <<"A", "A">>, Name |-> "attic", Type |-> "LYWSD03MMC"],
        [Mac |-> <<"b", "b">>, Name |-> "bath", Type |-> "LYWSDCGQ/01ZM"] >>

ConfUnknownType == <<
        [Mac |-> <<"A", "A">>, Name |-> "attic", Type |-> "LYWSD03MMC"],
        [Mac |-> <<"c", "c">>, Name |-> "cellar", Type |-> "LYWSD02"],
        [Mac |-> <<"b", "b">>, Name |-> "bath", Type |-> "LYWSDCGQ/01ZM"] >>

Configs == {ConfGood, ConfUnknownType}

\* 15 bytes: temperature 21.30 (0x0852), humidity 45.60 (0x11d0), battery 88
PayloadA == [b |-> <<0, 0, 0, 0, 0, 0, 82, 8, 208, 17, 0, 0, 88, 0, 0>>, tail |-> <<>>]

\* 16 bytes, sub-message 0x01: battery 77
PayloadBat == [b |-> <<0, 0, 0, 0, 0, 0, 0, 0, 0, 0, 0, 0, 0, 1, 77, 0>>, tail |-> <<>>]

\* 18 bytes, sub-message 0x04: temperature -1.0 (0xfff6), humidity 30.0 (0x012c)
PayloadTH == [b |-> <<0, 0, 0, 0, 0, 0, 0, 0, 0, 0, 0, 0, 0, 4, 246, 255, 44, 1>>, tail |-> <<>>]

\* 18 bytes, sub-message 0x04: temperature 21.5 (0x00d7), humidity 40.0 (0x0190)
PayloadTH2 == [b |-> <<0, 0, 0, 0, 0, 0, 0, 0, 0, 0, 0, 0, 0, 4, 215, 0, 144, 1>>, tail |-> <<>>]

\* 18 bytes, sub-message 0x06: not decoded
PayloadOther == [b |-> <<0, 0, 0, 0, 0, 0, 0, 0, 0, 0, 0, 0, 0, 6, 1, 2, 3, 4>>, tail |-> <<>>]

\* 5 bytes: too short to hold a sub-message type at offset 13
PayloadShort == [b |-> <<0, 0, 0, 0, 0>>, tail |-> <<>>]

\* a.Addr().String() is lower case; <<"c", "c">> is never configured
Adv(addr, sd) == [addr |-> addr, sd |-> sd]

Advs == {
        Adv(<<"a", "a">>, <<PayloadA>>),
        Adv(<<"b", "b">>, <<PayloadBat>>),
        Adv(<<"b", "b">>, <<PayloadTH, PayloadTH2>>),
        Adv(<<"b", "b">>, <<PayloadOther>>),
        Adv(<<"b", "b">>, <<PayloadShort>>),
        Adv(<<"c", "c">>, <<PayloadTH>>) }

NoAdv == Adv(<<>>, <<>>)

\* the goroutines the transport runs advHandler on, in slot order
HandlerOrder == <<"h1", "h2">>

Handlers == {HandlerOrder[i] : i \in DOMAIN HandlerOrder}

(***************************************************************************)
(* type sensor, newSensor, and the bodies of processAdv and flush.         *)
(***************************************************************************)
\* newSensor(name, processor)
NewSensor(name, type) == [name |-> name, type |-> type, data |-> EmptyData, mu |-> "free"]

\* s.mu.Lock() returns only when no one holds the mutex
CanLock_NoMutex(mu) == TRUE

CanLock(mu) == mu = "free"

\* s.data[k] = v
PutField_Replace(data, k, v) == [x \in {k} |-> v]

PutField_KeepFirst(data, k, v) ==
    [x \in DOMAIN data \cup {k} |-> IF x \in DOMAIN data THEN data[x] ELSE v]

PutField(data, k, v) == [x \in DOMAIN data \cup {k} |-> IF x = k THEN v ELSE data[x]]

FlushCopy_Nothing(data) == EmptyData

\* ret := make(Data); for k, v := range s.data { ret[k] = v }
FlushCopy(data) == data

FlushReset_Keep(data) == data

\* s.data = make(Data)
FlushReset(data) == EmptyData

ShouldWrite_Always(dry, fields) == ~dry

\* !dryRun && len(fields) > 0
ShouldWrite(dry, fields) == ~dry /\ Cardinality(DOMAIN fields) > 0

(***************************************************************************)
(* The active poller.  Sensor.poll exists in two variants: in main.go the   *)
(* connection is cancelled by a deferred call on every path after a         *)
(* successful dial; in part_000 it is cancelled, and its disconnection      *)
(* awaited, only at the end of a successful cycle.                           *)
(***************************************************************************)
PollVariants == {"main.go", "part_000"}

PollSensors == {"s1", "s2", "s3"}

\* mutex.Lock() returns only when no one holds the mutex
PollCanLock_NoMutex(holder) == TRUE

PollCanLock(holder) == holder = "free"

\* The notification text after strings.Trim and the two strings.Split: a
\* sequence of pairs, each pair the sequence of its "="-separated parts, a part
\* being a number in tenths or a text strconv.ParseFloat rejects.
Num(tenths) == [numeric |-> TRUE, v |-> tenths, t |-> ""]

Txt(t) == [numeric |-> FALSE, v |-> 0, t |-> t]

\* "T=23.7 H=55.2"
NotifGood == << <<Txt("T"), Num(237)>>, <<Txt("H"), Num(552)>> >>

\* "T=23.7 H=n/a"
NotifNonNumeric == << <<Txt("T"), Num(237)>>, <<Txt("H"), Txt("n/a")>> >>

\* "T=23.7"
NotifOnePair == << <<Txt("T"), Num(237)>> >>

\* "T"
NotifNoEquals == << <<Txt("T")>> >>

Notifications == {NotifGood, NotifNonNumeric, NotifOnePair, NotifNoEquals}

\* readTemperatureAndHumidity, the loop over the pairs from pair i on: res is
\* a [2]float64, parts[1] and res[i] panic out of range
RECURSIVE ParsePairs(_, _, _)
ParsePairs(pairs, i, res) ==
    IF i > Len(pairs) THEN [status |-> "ok", res |-> res]
    ELSE IF Len(pairs[i]) < 2 THEN [status |-> "panic", res |-> res]
    ELSE IF ~pairs[i][2].numeric THEN [status |-> "error", res |-> res]
    ELSE IF i > 2 THEN [status |-> "panic", res |-> res]
    ELSE ParsePairs(pairs, i + 1, [res EXCEPT ![i] = pairs[i][2].v])

ParseNotification_IgnoreError(pairs) ==
    LET r == ParsePairs(pairs, 1, <<0, 0>>)
    IN  IF r.status = "error" THEN [status |-> "ok", res |-> r.res] ELSE r

ParseNotification(pairs) == ParsePairs(pairs, 1, <<0, 0>>)

\* the battery level the device reports
BatteryLevels == {88}

(***************************************************************************)
(* Variables.                                                               *)
(***************************************************************************)
VARIABLES
    \* decoder specification
    decIn, decType, decOut, decPc,
    \* passive pipeline: configuration and flags
    conf, dryRun,
    \* main: "register", "scan", "fatal" (log.Fatalf), "exited"
    mainPc, regIdx,
    \* var sensors map[string]*sensor
    sensors,
    \* "no", or the run-time panic that ended the process
    crashed,
    \* the goroutines running advHandler
    handlers,
    \* the flush goroutine
    flusher,
    \* points handed to writeAPI.WritePoint, with the error it returned
    sink,
    \* advertisements the transport has delivered
    advCount,
    \* history: per sensor, the field sets merged by the processAdv calls that
    \* returned since its last flush returned; the number of advertisements the
    \* filter refused
    since, nDropped,
    \* active poller: which variant of Sensor.poll runs
    pVariant,
    \* the process-wide mutex: "free" or the sensor holding it
    pMutex,
    \* per sensor: where its Run goroutine stands, the state of its connection
    \* ("none", "open", "closing"), the done channel of its current poll
    \* ("none", "open", "closed"), what the cycle has read
    pPc, pConn, pDone, pRead,
    \* the results consumer of main: "recv" or "write", and the Result it holds
    cPc, cRec,
    \* "no", or the run-time panic that ended the process
    pCrashed,
    \* history: per sensor, what happened in its current poll cycle, from Lock
    \* to Unlock: the outcome of each call, what was read and the Results sent
    pCycle

decVars == <<decIn, decType, decOut, decPc>>

pipeVars == <<conf, dryRun, mainPc, regIdx, sensors, crashed, handlers, flusher,
              sink, advCount, since, nDropped>>

pollVars == <<pVariant, pMutex, pPc, pConn, pDone, pRead, cPc, cRec, pCrashed, pCycle>>

vars == <<decVars, pipeVars, pollVars>>

(***************************************************************************)
(* The decoder specification: one payload, decoded by either processor.    *)
(***************************************************************************)
DecInputs == {MkSlice(q, n, x) :
                q \in [1..5 -> ByteSamples], n \in 0..MaxPayloadLen, x \in {0, MaxExtra}}

IdleHandler == [pc |-> "idle", adv |-> NoAdv, s |-> <<>>, i |-> 0,
                fields |-> EmptyData, left |-> {}]

IdleFlusher == [pc |-> "off", todo |-> {}, cur |-> <<>>, ret |-> EmptyData,
                fields |-> EmptyData, merged |-> <<>>]

DecIdle ==
    /\ decIn = MkSlice(<<1>>, 0, 0)
    /\ decType = "none"
    /\ decOut = Returned(EmptyData)
    /\ decPc = "input"

PipeStart(c, dry) ==
    /\ conf = c
    /\ dryRun = dry
    /\ mainPc = "register"
    /\ regIdx = 1
    /\ sensors = [m \in {} |-> NewSensor("", "")]
    /\ crashed = "no"
    /\ handlers = [h \in Handlers |-> IdleHandler]
    /\ flusher = IdleFlusher
    /\ sink = <<>>
    /\ advCount = 0
    /\ since = [m \in {} |-> <<>>]
    /\ nDropped = 0

NoRead == [battery |-> 0, th |-> <<0, 0>>]

NoResult == [Name |-> "", Temperature |-> 0, Humidity |-> 0, BatteryPct |-> 0]

NoCycle == [dial |-> "", discover |-> "", battery |-> "", pct |-> 0, wait |-> "",
            n |-> <<>>, sent |-> 0]

\* main lines 179-189 [241-251]: one Run goroutine per configured sensor; a
\* sensor that is not configured has none ("off")
PollStart(v, configured) ==
    /\ pVariant = v
    /\ pMutex = "free"
    /\ pPc = [s \in PollSensors |-> IF s \in configured THEN "lock" ELSE "off"]
    /\ pConn = [s \in PollSensors |-> "none"]
    /\ pDone = [s \in PollSensors |-> "none"]
    /\ pRead = [s \in PollSensors |-> NoRead]
    /\ cPc = "recv"
    /\ cRec = NoResult
    /\ pCrashed = "no"
    /\ pCycle = [s \in PollSensors |-> NoCycle]

DecInit ==
    /\ decIn \in DecInputs
    /\ decType = "none"
    /\ decOut = Returned(EmptyData)
    /\ decPc = "input"
    /\ PipeStart(<<>>, FALSE)
    /\ PollStart("main.go", PollSensors)

DecodeLYWSD03MMC ==
    /\ decPc = "input"
    /\ decType' = "LYWSD03MMC"
    /\ decOut' = ProcessAdvLYWSD03MMC(decIn)
    /\ decPc' = "decoded"
    /\ UNCHANGED <<decIn, pipeVars, pollVars>>

DecodeLYWSDCGQ ==
    /\ decPc = "input"
    /\ decType' = "LYWSDCGQ/01ZM"
    /\ decOut' = ProcessAdvLYWSDCGQ(decIn)
    /\ decPc' = "decoded"
    /\ UNCHANGED <<decIn, pipeVars, pollVars>>

DecNext == DecodeLYWSD03MMC \/ DecodeLYWSDCGQ

SpecDecode == DecInit /\ [][DecNext]_vars

(***************************************************************************)
(* The passive pipeline.                                                    *)
(***************************************************************************)
PipeInit ==
    /\ DecIdle
    /\ PollStart("main.go", PollSensors)
    /\ \E c \in Configs, dry \in BOOLEAN : PipeStart(c, dry)

\* the process runs: main is in ble.Scan and no goroutine has panicked
Running == mainPc = "scan" /\ crashed = "no"

\* func advFilter(a ble.Advertisement) bool
AdvFilter_AcceptAll(a) == TRUE

AdvFilter(a) == a.addr \in DOMAIN sensors

\* main, lines 389-396: the switch on s.Type, whose default is log.Fatalf
KnownType_Any(type) == TRUE

KnownType(type) == type \in SensorTypes

\* main, lines 387-397: one iteration of the registration loop
Register ==
    /\ mainPc = "register"
    /\ regIdx <= Len(conf)
    /\ LET c == conf[regIdx]
           mac == ToLower(c.Mac)
       IN  IF KnownType(c.Type)
           THEN /\ sensors' = [m \in DOMAIN sensors \cup {mac} |->
                                 IF m = mac THEN NewSensor(c.Name, c.Type) ELSE sensors[m]]
                /\ since' = [m \in DOMAIN sensors \cup {mac} |->
                                 IF m = mac THEN <<>> ELSE since[m]]
                /\ regIdx' = regIdx + 1
                /\ UNCHANGED mainPc
           ELSE /\ mainPc' = "fatal"
                /\ UNCHANGED <<sensors, since, regIdx>>
    /\ UNCHANGED <<decVars, pollVars, conf, dryRun, crashed, handlers, flusher, sink,
                   advCount, nDropped>>

\* main, lines 399-427: start the flush goroutine, then ble.Scan
StartScan ==
    /\ mainPc = "register"
    /\ regIdx > Len(conf)
    /\ mainPc' = "scan"
    /\ flusher' = [flusher EXCEPT !.pc = "tick"]
    /\ UNCHANGED <<decVars, pollVars, conf, dryRun, regIdx, sensors, crashed, handlers, sink,
                   advCount, since, nDropped>>

\* the signal handler cancels the scan context: ble.Scan returns, main returns
\* and the process ends with every goroutine; only the written points remain
Shutdown ==
    /\ Running
    /\ mainPc' = "exited"
    /\ sensors' = [m \in {} |-> NewSensor("", "")]
    /\ since' = [m \in {} |-> <<>>]
    /\ handlers' = [h \in Handlers |-> IdleHandler]
    /\ flusher' = IdleFlusher
    /\ regIdx' = 1
    /\ advCount' = 0
    /\ nDropped' = 0
    /\ UNCHANGED <<decVars, pollVars, conf, dryRun, crashed, sink>>

FirstIdle(h) ==
    /\ handlers[h].pc = "idle"
    /\ \A i, j \in DOMAIN HandlerOrder :
            (HandlerOrder[j] = h /\ i < j) => handlers[HandlerOrder[i]].pc # "idle"

\* advHandler lines 360-364, the head of the loop over a.ServiceData(): return
\* after the last block; otherwise s.name is evaluated for vlog, which
\* dereferences s, and processAdv is called
LoopHead(rec) ==
    IF rec.i > Len(rec.adv.sd) THEN IdleHandler
    ELSE IF rec.s = <<>> THEN [rec EXCEPT !.pc = "panic"]
    ELSE [rec EXCEPT !.pc = "lock"]

CrashOf(rec) == IF rec.pc = "panic" THEN "nil sensor" ELSE "no"

\* ble.Scan: the filter is asked first, the handler runs for what it accepts;
\* advHandler line 359: s := sensors[a.Addr().String()] (nil when absent)
Deliver(h, a) ==
    /\ Running
    /\ advCount < MaxAdvs
    /\ FirstIdle(h)
    /\ advCount' = advCount + 1
    /\ IF AdvFilter(a)
       THEN LET rec == LoopHead([IdleHandler EXCEPT !.adv = a, !.i = 1,
                        !.s = IF a.addr \in DOMAIN sensors THEN a.addr ELSE <<>>])
            IN  /\ handlers' = [handlers EXCEPT ![h] = rec]
                /\ crashed' = CrashOf(rec)
                /\ UNCHANGED nDropped
       ELSE /\ nDropped' = nDropped + 1
            /\ UNCHANGED <<handlers, crashed>>
    /\ UNCHANGED <<decVars, pollVars, conf, dryRun, mainPc, regIdx, sensors, flusher,
                   sink, since>>

\* processAdv lines 269-271: take the mutex, call the processor
ProcessAdvLock(h) ==
    /\ Running
    /\ handlers[h].pc = "lock"
    /\ LET m == handlers[h].s
           r == Processor(sensors[m].type, handlers[h].adv.sd[handlers[h].i])
       IN  /\ CanLock(sensors[m].mu)
           /\ IF r.panic
              THEN /\ crashed' = "decode"
                   /\ handlers' = [handlers EXCEPT ![h].pc = "panic"]
                   /\ UNCHANGED sensors
              ELSE /\ sensors' = [sensors EXCEPT ![m].mu = h]
                   /\ handlers' = [handlers EXCEPT ![h].pc = "write",
                                        ![h].fields = r.data, ![h].left = DOMAIN r.data]
                   /\ UNCHANGED crashed
    /\ UNCHANGED <<decVars, pollVars, conf, dryRun, mainPc, regIdx, flusher, sink,
                   advCount, since, nDropped>>

\* processAdv lines 271-273: one iteration of the range over the decoded map
ProcessAdvWrite(h, k) ==
    /\ Running
    /\ handlers[h].pc = "write"
    /\ k \in handlers[h].left
    /\ LET m == handlers[h].s
       IN  sensors' = [sensors EXCEPT ![m].data = PutField(@, k, handlers[h].fields[k])]
    /\ handlers' = [handlers EXCEPT ![h].left = @ \ {k}]
    /\ UNCHANGED <<decVars, pollVars, conf, dryRun, mainPc, regIdx, crashed, flusher, sink,
                   advCount, since, nDropped>>

\* processAdv line 270 (deferred): release the mutex and return to the loop of
\* advHandler
ProcessAdvUnlock(h) ==
    /\ Running
    /\ handlers[h].pc = "write"
    /\ handlers[h].left = {}
    /\ LET m == handlers[h].s
           rec == LoopHead([handlers[h] EXCEPT !.i = @ + 1, !.fields = EmptyData])
       IN  /\ sensors' = [sensors EXCEPT ![m].mu = "free"]
           /\ since' = [since EXCEPT ![m] = Append(@, handlers[h].fields)]
           /\ handlers' = [handlers EXCEPT ![h] = rec]
    /\ UNCHANGED <<decVars, pollVars, conf, dryRun, mainPc, regIdx, crashed, flusher, sink,
                   advCount, nDropped>>

\* flush goroutine line 402: <-ticker.C
Tick ==
    /\ Running
    /\ flusher.pc = "tick"
    /\ flusher' = [IdleFlusher EXCEPT !.pc = "flushed", !.todo = DOMAIN sensors]
    /\ UNCHANGED <<decVars, pollVars, conf, dryRun, mainPc, regIdx, sensors, crashed, handlers,
                   sink, advCount, since, nDropped>>

\* flush lines 277-282: take the mutex and copy the map
FlushLock ==
    /\ Running
    /\ flusher.pc = "lock"
    /\ CanLock(sensors[flusher.cur].mu)
    /\ sensors' = [sensors EXCEPT ![flusher.cur].mu = "flusher"]
    /\ flusher' = [flusher EXCEPT !.pc = "reset", !.ret = FlushCopy(sensors[flusher.cur].data)]
    /\ UNCHANGED <<decVars, pollVars, conf, dryRun, mainPc, regIdx, crashed, handlers,
                   sink, advCount, since, nDropped>>

\* flush line 283
FlushResetStep ==
    /\ Running
    /\ flusher.pc = "reset"
    /\ sensors' = [sensors EXCEPT ![flusher.cur].data = FlushReset(@)]
    /\ flusher' = [flusher EXCEPT !.pc = "unlock"]
    /\ UNCHANGED <<decVars, pollVars, conf, dryRun, mainPc, regIdx, crashed, handlers,
                   sink, advCount, since, nDropped>>

\* flush line 278: defer s.mu.Unlock(), run when flush returns
FlushRelease_Never(mu) == mu

FlushRelease(mu) == "free"

\* flush lines 284 and 278 (deferred): return ret, release the mutex; flush
\* goroutine lines 404-406: fields := s.flush(), then the test for the write
FlushUnlock ==
    /\ Running
    /\ flusher.pc = "unlock"
    /\ sensors' = [sensors EXCEPT ![flusher.cur].mu = FlushRelease(@)]
    /\ flusher' = [flusher EXCEPT
                        !.pc = IF ShouldWrite(dryRun, flusher.ret) THEN "write" ELSE "flushed",
                        !.fields = flusher.ret, !.ret = EmptyData,
                        !.merged = since[flusher.cur]]
    /\ since' = [since EXCEPT ![flusher.cur] = <<>>]
    /\ UNCHANGED <<decVars, pollVars, conf, dryRun, mainPc, regIdx, crashed, handlers,
                   sink, advCount, nDropped>>

\* flush goroutine lines 416-418: an error of WritePoint is printed and the
\* range over sensors goes on
AfterWritePoint_StopOnError(err) == IF err THEN "off" ELSE "flushed"

AfterWritePoint(err) == "flushed"

\* flush goroutine lines 407-418: the point is written; an error is printed
WritePoint(err) ==
    /\ Running
    /\ flusher.pc = "write"
    /\ sink' = Append(sink, [name |-> sensors[flusher.cur].name,
                             fields |-> flusher.fields, err |-> err])
    /\ flusher' = [flusher EXCEPT !.pc = AfterWritePoint(err)]
    /\ UNCHANGED <<decVars, pollVars, conf, dryRun, mainPc, regIdx, sensors, crashed, handlers,
                   advCount, since, nDropped>>

\* flush goroutine line 403: the next sensor of the range, or back to the ticker
FlushNext ==
    /\ Running
    /\ flusher.pc = "flushed"
    /\ IF flusher.todo = {}
       THEN flusher' = [IdleFlusher EXCEPT !.pc = "tick"]
       ELSE \E m \in flusher.todo :
                flusher' = [IdleFlusher EXCEPT !.pc = "lock", !.todo = flusher.todo \ {m},
                                !.cur = m]
    /\ UNCHANGED <<decVars, pollVars, conf, dryRun, mainPc, regIdx, sensors, crashed, handlers,
                   sink, advCount, since, nDropped>>

Next ==
    \/ Register
    \/ StartScan
    \/ Shutdown
    \/ \E h \in Handlers, a \in Advs : Deliver(h, a)
    \/ \E h \in Handlers : ProcessAdvLock(h)
    \/ \E h \in Handlers, k \in {"temperature", "humidity", "battery_pct"} :
            ProcessAdvWrite(h, k)
    \/ \E h \in Handlers : ProcessAdvUnlock(h)
    \/ Tick
    \/ FlushLock
    \/ FlushResetStep
    \/ FlushUnlock
    \/ \E err \in BOOLEAN : WritePoint(err)
    \/ FlushNext

Spec == PipeInit /\ [][Next]_vars

(***************************************************************************)
(* The active poller: Sensor.Run, Sensor.poll and the consumer of results.  *)
(* Source lines are those of main.go, with those of part_000 in brackets.   *)
(***************************************************************************)
PollInit ==
    /\ DecIdle
    /\ PipeStart(<<>>, FALSE)
    /\ \E v \in PollVariants : PollStart(v, PollSensors)

PollRunning == pCrashed = "no"

\* where a cycle goes when it returns early after a successful dial: main.go
\* runs the deferred CancelConnection, part_000 only the deferred Unlock
AfterFailure(v) == IF v = "main.go" THEN "cancel" ELSE "unlock"

\* poll lines 117-120 [169-172]: the return after a failed dial, which runs the
\* deferred cancel() and mutex.Unlock()
AfterDialError_KeepsLock == "ticker"

AfterDialError == "unlock"

\* part_000 lines 174-178: the goroutine closes done once the client is
\* disconnected
DoneWhenDisconnected_NeverClosed(done) == done

DoneWhenDisconnected(done) == IF done = "open" THEN "closed" ELSE done

\* poll line 107 [158]: mutex.Lock()
PollLock(s) ==
    /\ PollRunning
    /\ pPc[s] = "lock"
    /\ PollCanLock(pMutex)
    /\ pMutex' = s
    /\ pPc' = [pPc EXCEPT ![s] = "dial"]
    /\ UNCHANGED <<decVars, pipeVars, pVariant, pConn, pDone, pRead, cPc, cRec,
                   pCrashed, pCycle>>

\* poll lines 116-121 [166-177]: ble.Dial; on an error only cancel() and Unlock
\* are deferred; on success part_000 starts the goroutine that closes done
\* once the client is disconnected
PollDial(s, ok) ==
    /\ PollRunning
    /\ pPc[s] = "dial"
    /\ IF ok
       THEN /\ pConn' = [pConn EXCEPT ![s] = "open"]
            /\ pDone' = [pDone EXCEPT ![s] = IF pVariant = "part_000" THEN "open" ELSE "none"]
            /\ pPc' = [pPc EXCEPT ![s] = "discover"]
       ELSE /\ pPc' = [pPc EXCEPT ![s] = AfterDialError]
            /\ UNCHANGED <<pConn, pDone>>
    /\ pRead' = [pRead EXCEPT ![s] = NoRead]
    /\ pCycle' = [pCycle EXCEPT ![s].dial = IF ok THEN "ok" ELSE "error"]
    /\ UNCHANGED <<decVars, pipeVars, pVariant, pMutex, cPc, cRec, pCrashed>>

\* poll lines 123-127 [179-183]: client.DiscoverProfile
PollDiscover(s, ok) ==
    /\ PollRunning
    /\ pPc[s] = "discover"
    /\ ok => pConn[s] = "open"
    /\ pPc' = [pPc EXCEPT ![s] = IF ok THEN "battery" ELSE AfterFailure(pVariant)]
    /\ pCycle' = [pCycle EXCEPT ![s].discover = IF ok THEN "ok" ELSE "error"]
    /\ UNCHANGED <<decVars, pipeVars, pVariant, pMutex, pConn, pDone, pRead, cPc,
                   cRec, pCrashed>>

\* poll lines 129-133 [185-189]: readBatteryLevel
PollBattery(s, ok, pct) ==
    /\ PollRunning
    /\ pPc[s] = "battery"
    /\ ok => pConn[s] = "open"
    /\ pPc' = [pPc EXCEPT ![s] = IF ok THEN "notify" ELSE AfterFailure(pVariant)]
    /\ pRead' = [pRead EXCEPT ![s].battery = IF ok THEN pct ELSE 0]
    /\ pCycle' = [pCycle EXCEPT ![s].battery = IF ok THEN "ok" ELSE "error",
                                ![s].pct = IF ok THEN pct ELSE 0]
    /\ UNCHANGED <<decVars, pipeVars, pVariant, pMutex, pConn, pDone, cPc, cRec,
                   pCrashed>>

\* poll lines 135-139 [191-195], readTemperatureAndHumidity lines 86-98
\* [137-149]: a notification arrives and is parsed
PollNotify(s, n) ==
    /\ PollRunning
    /\ pPc[s] = "notify"
    /\ pConn[s] = "open"
    /\ LET r == ParseNotification(n)
       IN  /\ pPc' = [pPc EXCEPT ![s] =
                        CASE r.status = "ok" -> "send"
                          [] r.status = "error" -> AfterFailure(pVariant)
                          [] OTHER -> "panic"]
           /\ pRead' = [pRead EXCEPT ![s].th = IF r.status = "ok" THEN r.res ELSE <<0, 0>>]
           /\ pCrashed' = IF r.status = "panic" THEN "index out of range" ELSE "no"
    /\ pCycle' = [pCycle EXCEPT ![s].wait = "notification", ![s].n = n]
    /\ UNCHANGED <<decVars, pipeVars, pVariant, pMutex, pConn, pDone, cPc, cRec>>

\* readTemperatureAndHumidity lines 99-100 [150-151]: no notification in time
PollTimeout(s) ==
    /\ PollRunning
    /\ pPc[s] = "notify"
    /\ pPc' = [pPc EXCEPT ![s] = AfterFailure(pVariant)]
    /\ pCycle' = [pCycle EXCEPT ![s].wait = "timeout"]
    /\ UNCHANGED <<decVars, pipeVars, pVariant, pMutex, pConn, pDone, pRead, cPc,
                   cRec, pCrashed>>

\* poll lines 141-148 [197-204] with main line 192 [254]: the send on the
\* unbuffered results channel meets the receive of the consumer
PollSend(s) ==
    /\ PollRunning
    /\ pPc[s] = "send"
    /\ cPc = "recv"
    /\ cRec' = [Name |-> s, Temperature |-> pRead[s].th[1], Humidity |-> pRead[s].th[2],
                BatteryPct |-> pRead[s].battery]
    /\ cPc' = "write"
    /\ pPc' = [pPc EXCEPT ![s] = "cancel"]
    /\ pRead' = [pRead EXCEPT ![s] = NoRead]
    /\ pCycle' = [pCycle EXCEPT ![s].sent = @ + 1]
    /\ UNCHANGED <<decVars, pipeVars, pVariant, pMutex, pConn, pDone, pCrashed>>

\* poll line 121 (deferred) [206]: client.CancelConnection()
PollCancelConnection(s) ==
    /\ PollRunning
    /\ pPc[s] = "cancel"
    /\ pConn' = [pConn EXCEPT ![s] = IF @ = "open" THEN "closing" ELSE @]
    /\ pPc' = [pPc EXCEPT ![s] = IF pVariant = "part_000" THEN "waitdone" ELSE "unlock"]
    /\ UNCHANGED <<decVars, pipeVars, pVariant, pMutex, pDone, pRead, cPc, cRec,
                   pCrashed, pCycle>>

\* part_000 line 207: <-done
PollWaitDone(s) ==
    /\ PollRunning
    /\ pPc[s] = "waitdone"
    /\ pDone[s] = "closed"
    /\ pPc' = [pPc EXCEPT ![s] = "unlock"]
    /\ UNCHANGED <<decVars, pipeVars, pVariant, pMutex, pConn, pDone, pRead, cPc,
                   cRec, pCrashed, pCycle>>

\* poll line 108 (deferred) [159]: mutex.Unlock(), back to Run
PollUnlock(s) ==
    /\ PollRunning
    /\ pPc[s] = "unlock"
    /\ pMutex' = "free"
    /\ pPc' = [pPc EXCEPT ![s] = "ticker"]
    /\ pCycle' = [pCycle EXCEPT ![s] = NoCycle]
    /\ UNCHANGED <<decVars, pipeVars, pVariant, pConn, pDone, pRead, cPc, cRec,
                   pCrashed>>

\* Run line 153 [212]: <-ticker.C, the next cycle
PollTicker(s) ==
    /\ PollRunning
    /\ pPc[s] = "ticker"
    /\ pPc' = [pPc EXCEPT ![s] = "lock"]
    /\ UNCHANGED <<decVars, pipeVars, pVariant, pMutex, pConn, pDone, pRead, cPc, cRec,
                   pCrashed, pCycle>>

\* the transport: the link to the device is gone, by the cancellation or by
\* itself; part_000 lines 174-178: the goroutine closes done
TransportDisconnected(s) ==
    /\ PollRunning
    /\ pConn[s] # "none"
    /\ pConn' = [pConn EXCEPT ![s] = "none"]
    /\ pDone' = [pDone EXCEPT ![s] = DoneWhenDisconnected(@)]
    /\ UNCHANGED <<decVars, pipeVars, pVariant, pMutex, pPc, pRead, cPc, cRec,
                   pCrashed, pCycle>>

\* main lines 193-210 [255-272]: the consumer hands the point to WritePoint,
\* prints an error if there is one, and receives again
ConsumerWrite ==
    /\ PollRunning
    /\ cPc = "write"
    /\ cPc' = "recv"
    /\ cRec' = NoResult
    /\ UNCHANGED <<decVars, pipeVars, pVariant, pMutex, pPc, pConn, pDone, pRead, pCrashed,
                   pCycle>>

PollNext ==
    \/ \E s \in PollSensors : PollLock(s)
    \/ \E s \in PollSensors, ok \in BOOLEAN : PollDial(s, ok)
    \/ \E s \in PollSensors, ok \in BOOLEAN : PollDiscover(s, ok)
    \/ \E s \in PollSensors, ok \in BOOLEAN, pct \in BatteryLevels : PollBattery(s, ok, pct)
    \/ \E s \in PollSensors, n \in Notifications : PollNotify(s, n)
    \/ \E s \in PollSensors : PollTimeout(s)
    \/ \E s \in PollSensors : PollSend(s)
    \/ \E s \in PollSensors : PollCancelConnection(s)
    \/ \E s \in PollSensors : PollWaitDone(s)
    \/ \E s \in PollSensors : PollUnlock(s)
    \/ \E s \in PollSensors : PollTicker(s)
    \/ \E s \in PollSensors : TransportDisconnected(s)
    \/ ConsumerWrite

SpecPoll == PollInit /\ [][PollNext]_vars

(***************************************************************************)
(* The poller under the scheduling the claims about progress assume: every  *)
(* transport call returns or times out, the transport reports the           *)
(* disconnection of a cancelled connection, the consumer of main goes on    *)
(* receiving, the tickers fire, and a goroutine blocked in mutex.Lock gets  *)
(* the mutex when it is released again and again (sync.Mutex hands it to a  *)
(* starving waiter).                                                         *)
(***************************************************************************)
PollFairness ==
    /\ WF_vars(ConsumerWrite)
    /\ \A s \in PollSensors :
        /\ SF_vars(PollLock(s))
        /\ WF_vars(\E ok \in BOOLEAN : PollDial(s, ok))
        /\ WF_vars(\E ok \in BOOLEAN : PollDiscover(s, ok))
        /\ WF_vars(\E ok \in BOOLEAN, pct \in BatteryLevels : PollBattery(s, ok, pct))
        /\ WF_vars((\E n \in Notifications : PollNotify(s, n)) \/ PollTimeout(s))
        /\ WF_vars(PollSend(s))
        /\ WF_vars(PollCancelConnection(s))
        /\ WF_vars(PollWaitDone(s))
        /\ WF_vars(PollUnlock(s))
        /\ WF_vars(PollTicker(s))
        /\ WF_vars(pConn[s] = "closing" /\ TransportDisconnected(s))

\* a configuration of two sensors
PollFairInit ==
    /\ DecIdle
    /\ PipeStart(<<>>, FALSE)
    /\ \E v \in PollVariants : PollStart(v, {"s1", "s2"})

SpecPollFair == PollFairInit /\ [][PollNext]_vars /\ PollFairness

(***************************************************************************)
(* C1: the poll cycles never overlap.  In every reachable state at most one *)
(* sensor is between mutex.Lock and mutex.Unlock of poll, and it is the one *)
(* recorded as holding the mutex.                                            *)
(***************************************************************************)
InPoll(s) == pPc[s] \in {"dial", "discover", "battery", "notify", "send", "cancel",
                         "waitdone", "unlock", "panic"}

C1_PollCyclesNeverOverlap ==
    \A s, t \in PollSensors : (InPoll(s) /\ InPoll(t)) => s = t

\* one sensor waits for a notification while the other is blocked in Lock
C1_Witness ==
    /\ pPc["s1"] = "notify"
    /\ pPc["s2"] = "lock"
    /\ pMutex = "s1"

(***************************************************************************)
(* C2: at most one connection is live.  No sensor is at its dial while a    *)
(* connection opened by an earlier cycle (of any sensor) is still open and  *)
(* not cancelled, and a cycle that has released the mutex has left no       *)
(* connection open.                                                          *)
(***************************************************************************)
C2_OneLiveConnection ==
    /\ \A s, t \in PollSensors : pPc[s] = "dial" => pConn[t] # "open"
    /\ \A s \in PollSensors : pPc[s] \in {"ticker", "lock"} => pConn[s] # "open"

(***************************************************************************)
(* Claims about the accumulator.  flusher.fields is what the last flush    *)
(* returned for flusher.cur and flusher.merged the field sets of the        *)
(* processAdv calls on that sensor that returned since the flush before.    *)
(***************************************************************************)
FlushReturned == flusher.pc \in {"write", "flushed"} /\ flusher.cur # <<>>

Names(evs) == UNION {DOMAIN evs[i] : i \in DOMAIN evs}

DisjointNames(evs) ==
    \A i, j \in DOMAIN evs : i # j => DOMAIN evs[i] \cap DOMAIN evs[j] = {}

(***************************************************************************)
(* C3: no lost updates.  When the processAdv calls that returned between    *)
(* two flushes of a sensor, run by the concurrent handler goroutines in     *)
(* any interleaving, contributed disjoint field names, the flush returns    *)
(* exactly the union of their contributions.                                *)
(***************************************************************************)
C3_NoLostUpdates ==
    (FlushReturned /\ DisjointNames(flusher.merged)) =>
        /\ DOMAIN flusher.fields = Names(flusher.merged)
        /\ \A i \in DOMAIN flusher.merged : \A k \in DOMAIN flusher.merged[i] :
                flusher.fields[k] = flusher.merged[i][k]

\* the battery block and the temperature/humidity block of two advertisements
\* were merged by both handler goroutines and drained together
C3_Witness ==
    /\ FlushReturned
    /\ Len(flusher.merged) = 2
    /\ DisjointNames(flusher.merged)
    /\ Names(flusher.merged) = {"battery_pct", "temperature", "humidity"}
    /\ DOMAIN flusher.fields = {"battery_pct", "temperature", "humidity"}
    /\ handlers["h2"].pc = "lock"

(***************************************************************************)
(* C4: drain is atomic with respect to merges.  Every field of every field  *)
(* set merged since the previous flush is in the snapshot of the flush that *)
(* follows, with its value unless a later merge of the same period wrote    *)
(* the field again; the snapshot holds nothing else (nothing of an earlier  *)
(* period, nothing of a merge that has not returned); and between flushes   *)
(* no merged field is missing from the map.                                 *)
(***************************************************************************)
C4_DrainAtomic ==
    /\ FlushReturned =>
        /\ \A i \in DOMAIN flusher.merged : \A k \in DOMAIN flusher.merged[i] :
                /\ k \in DOMAIN flusher.fields
                /\ \/ flusher.fields[k] = flusher.merged[i][k]
                   \/ \E j \in DOMAIN flusher.merged :
                            j > i /\ k \in DOMAIN flusher.merged[j]
        /\ \A k \in DOMAIN flusher.fields : \E i \in DOMAIN flusher.merged :
                k \in DOMAIN flusher.merged[i] /\ flusher.merged[i][k] = flusher.fields[k]
    /\ \A m \in DOMAIN sensors :
            sensors[m].mu = "free" => Names(since[m]) = DOMAIN sensors[m].data

\* a drain that returned the battery alone, and right after it a merge of two
\* fields on the same sensor: the merge is whole in the map, none of it in
\* the snapshot
C4_Witness ==
    /\ FlushReturned
    /\ DOMAIN flusher.fields = {"battery_pct"}
    /\ \E h \in Handlers :
            /\ handlers[h].s = flusher.cur
            /\ handlers[h].pc = "write"
            /\ handlers[h].left = {}
            /\ DOMAIN handlers[h].fields = {"temperature", "humidity"}
            /\ DOMAIN sensors[flusher.cur].data = {"temperature", "humidity"}

(***************************************************************************)
(* C5: a single merge of F on an empty accumulator followed by flush        *)
(* returns exactly F, and a flush with no merge since the flush before      *)
(* returns the empty set.                                                    *)
(***************************************************************************)
C5_MergeThenFlush ==
    FlushReturned =>
        /\ Len(flusher.merged) = 1 => flusher.fields = flusher.merged[1]
        /\ Len(flusher.merged) = 0 => flusher.fields = EmptyData

\* the second flush in a row: the first returned the three fields of one
\* merge, which were written, and this one is empty
C5_Witness ==
    /\ FlushReturned
    /\ flusher.cur = <<"a", "a">>
    /\ flusher.merged = <<>>
    /\ flusher.fields = EmptyData
    /\ Len(sink) = 1
    /\ sink[1].name = "attic"
    /\ DOMAIN sink[1].fields = {"temperature", "humidity", "battery_pct"}
    /\ advCount = 1

(***************************************************************************)
(* C6: when a sensor had no merge, or only merges of empty field sets,      *)
(* since its previous flush, flush returns the empty set and the flush      *)
(* goroutine writes no point for it: no write is pending and no point with  *)
(* an empty field set is ever written.                                       *)
(***************************************************************************)
C6_EmptyFlushNoWrite ==
    /\ (FlushReturned /\ \A i \in DOMAIN flusher.merged : flusher.merged[i] = EmptyData) =>
            /\ flusher.fields = EmptyData
            /\ flusher.pc # "write"
    /\ \A i \in DOMAIN sink : sink[i].fields # EmptyData

\* not a dry run: a sensor whose only merge decoded to nothing is flushed
C6_Witness ==
    /\ FlushReturned
    /\ ~dryRun
    /\ Len(flusher.merged) = 1
    /\ flusher.merged[1] = EmptyData
    /\ flusher.pc = "flushed"
    /\ sink = <<>>

(***************************************************************************)
(* C7: a payload too short to index, handed to the LYWSDCGQ/01ZM processor, *)
(* decodes to the empty field set and the process keeps running.            *)
(***************************************************************************)
TooShortForLYWSDCGQ(p) ==
    \/ Len(p.b) < 14
    \/ Len(p.b) < 15 /\ p.b[14] = 1
    \/ Len(p.b) < 18 /\ p.b[14] = 4

C7_ShortPayloadDecodesEmpty ==
    \A h \in Handlers :
        (/\ handlers[h].pc \in {"write", "panic"}
         /\ handlers[h].s \in DOMAIN sensors
         /\ sensors[handlers[h].s].type = "LYWSDCGQ/01ZM"
         /\ TooShortForLYWSDCGQ(handlers[h].adv.sd[handlers[h].i])) =>
            /\ handlers[h].pc = "write"
            /\ handlers[h].fields = EmptyData
            /\ crashed = "no"

(***************************************************************************)
(* C10: an advertisement from an address that is no key of sensors is       *)
(* never processed: no handler goroutine ever holds one, so it reaches no   *)
(* processor and no accumulator, and it never ends the process with a nil   *)
(* sensor.                                                                   *)
(***************************************************************************)
C10_UnknownAddressNeverProcessed ==
    /\ \A h \in Handlers :
            handlers[h].pc # "idle" => handlers[h].adv.addr \in DOMAIN sensors
    /\ crashed # "nil sensor"

\* advertisements were refused while the configured sensors went on; the
\* sensor configured as "AA" is the one that advertises as "aa"
C10_Witness ==
    /\ nDropped = 1
    /\ Running
    /\ sensors[<<"a", "a">>].data # EmptyData

(***************************************************************************)
(* C8: the LYWSD03MMC decoder returns the empty field set for every        *)
(* payload whose length is not 15, and for a payload of length 15 exactly   *)
(* temperature = signed little-endian 16 bits at offsets 6-7 over 100,      *)
(* humidity = unsigned little-endian 16 bits at offsets 8-9 over 100 and    *)
(* battery_pct = the byte at offset 12.                                      *)
(***************************************************************************)
C8_VariantADecode ==
    (decPc = "decoded" /\ decType = "LYWSD03MMC") =>
        /\ ~decOut.panic
        /\ Len(decIn.b) # 15 => DOMAIN decOut.data = {}
        /\ Len(decIn.b) = 15 =>
            /\ DOMAIN decOut.data = {"temperature", "humidity", "battery_pct"}
            /\ decOut.data["temperature"].d = 100
            /\ decOut.data["temperature"].n =
                    IF decIn.b[8] >= 128
                    THEN decIn.b[7] + 256 * decIn.b[8] - 65536
                    ELSE decIn.b[7] + 256 * decIn.b[8]
            /\ decOut.data["humidity"] = [n |-> decIn.b[9] + 256 * decIn.b[10], d |-> 100]
            /\ decOut.data["battery_pct"] = [n |-> decIn.b[13], d |-> 1]

\* the spec's example: 0x47 0x09 at offsets 6-7 decodes to 2375 hundredths
C8_Witness ==
    /\ decPc = "decoded" /\ decType = "LYWSD03MMC" /\ Len(decIn.b) = 15
    /\ decIn.b[7] = 71 /\ decIn.b[8] = 9
    /\ decOut.data["temperature"] = [n |-> 2375, d |-> 100]

(***************************************************************************)
(* C9: for a payload of at least 18 bytes the LYWSDCGQ decoder returns     *)
(* exactly {battery_pct = byte 14} for discriminator 0x01, exactly          *)
(* {temperature = signed LE 16 bits at 14-15 over 10, humidity = unsigned   *)
(* LE 16 bits at 16-17 over 10} for 0x04, and the empty set otherwise.      *)
(***************************************************************************)
C9_VariantBDecode ==
    (decPc = "decoded" /\ decType = "LYWSDCGQ/01ZM" /\ Len(decIn.b) >= 18) =>
        /\ ~decOut.panic
        /\ decIn.b[14] = 1 =>
            /\ DOMAIN decOut.data = {"battery_pct"}
            /\ decOut.data["battery_pct"] = [n |-> decIn.b[15], d |-> 1]
        /\ decIn.b[14] = 4 =>
            /\ DOMAIN decOut.data = {"temperature", "humidity"}
            /\ decOut.data["temperature"].d = 10
            /\ decOut.data["temperature"].n =
                    IF decIn.b[16] >= 128
                    THEN decIn.b[15] + 256 * decIn.b[16] - 65536
                    ELSE decIn.b[15] + 256 * decIn.b[16]
            /\ decOut.data["humidity"] = [n |-> decIn.b[17] + 256 * decIn.b[18], d |-> 10]
        /\ decIn.b[14] \notin {1, 4} => DOMAIN decOut.data = {}

\* a temperature below zero, from a high byte of 0xff
C9_Witness ==
    /\ decPc = "decoded" /\ decType = "LYWSDCGQ/01ZM" /\ Len(decIn.b) >= 18
    /\ decIn.b[14] = 4 /\ decIn.b[16] = 255
    /\ decOut.data["temperature"].n < 0

(***************************************************************************)
(* C11: a failed Sink write does not stop the flush goroutine and is not    *)
(* retried.  The step in which WritePoint returns an error leaves the       *)
(* goroutine at the head of its range with the sensors still to drain       *)
(* unchanged and puts nothing back into any accumulator; a sensor leaves    *)
(* the range only by being flushed, and the range ends only when no sensor  *)
(* is left; and for a sensor whose last write failed, the accumulator and   *)
(* every later flush hold only what was merged after the failed flush.      *)
(***************************************************************************)
LastWriteFailed(m) ==
    \E i \in DOMAIN sink :
        /\ sink[i].name = sensors[m].name
        /\ sink[i].err
        /\ \A j \in DOMAIN sink : j > i => sink[j].name # sensors[m].name

C11_FailedRecordDropped ==
    \A m \in DOMAIN sensors : LastWriteFailed(m) =>
        /\ sensors[m].mu = "free" =>
                /\ DOMAIN sensors[m].data = Names(since[m])
                /\ \A k \in DOMAIN sensors[m].data : \E i \in DOMAIN since[m] :
                        k \in DOMAIN since[m][i] /\ since[m][i][k] = sensors[m].data[k]
        /\ (FlushReturned /\ flusher.cur = m) =>
                /\ DOMAIN flusher.fields = Names(flusher.merged)
                /\ \A k \in DOMAIN flusher.fields : \E i \in DOMAIN flusher.merged :
                        k \in DOMAIN flusher.merged[i]
                        /\ flusher.merged[i][k] = flusher.fields[k]

C11_FailedWriteStep ==
    (flusher.pc = "write" /\ Len(sink') = Len(sink) + 1 /\ sink'[Len(sink')].err) =>
        /\ flusher'.pc = "flushed"
        /\ flusher'.todo = flusher.todo
        /\ sensors' = sensors
        /\ since' = since
        /\ mainPc' = mainPc
        /\ crashed' = crashed

C11_RangeGoesOn ==
    /\ (flusher'.todo # flusher.todo /\ flusher.pc \notin {"tick", "off"}
            /\ flusher'.pc # "off") =>
            /\ flusher'.pc = "lock"
            /\ flusher.todo = flusher'.todo \cup {flusher'.cur}
            /\ flusher'.cur \notin flusher'.todo
    /\ (flusher'.pc = "tick" /\ flusher.pc \notin {"tick", "off"}) => flusher.todo = {}

C11_WriteFailureDoesNotStop ==
    /\ []C11_FailedRecordDropped
    /\ [][C11_FailedWriteStep /\ C11_RangeGoesOn]_vars

\* the write for "attic" failed, the point of "bath" was written after it, and
\* a later flush of "attic" returned nothing
C11_Witness ==
    /\ Len(sink) = 2
    /\ sink[1].name = "attic" /\ sink[1].err
    /\ sink[2].name = "bath"
    /\ FlushReturned
    /\ flusher.cur = <<"a", "a">>
    /\ flusher.merged = <<>>
    /\ flusher.fields = EmptyData

(***************************************************************************)
(* C12: end to end, not in a dry run.  When exactly one valid 15-byte       *)
(* payload of a LYWSD03MMC sensor was merged since its previous flush, the  *)
(* flush that follows hands exactly one point to the Sink, tagged with the  *)
(* name the configuration gives the sensor and carrying exactly the three   *)
(* decoded fields; a flush with no merge since the flush before hands over  *)
(* none; and the Sink receives points only from a flush, one at a time.     *)
(***************************************************************************)
ExampleFields ==
    [k \in {"temperature", "humidity", "battery_pct"} |->
        CASE k = "temperature" -> [n |-> 2130, d |-> 100]
          [] k = "humidity" -> [n |-> 4560, d |-> 100]
          [] OTHER -> [n |-> 88, d |-> 1]]

ConfiguredAs(m, name) ==
    \E i \in DOMAIN conf : ToLower(conf[i].Mac) = m /\ conf[i].Name = name

C12_RecordOfOnePayload ==
    /\ (/\ ~dryRun
         /\ FlushReturned
         /\ sensors[flusher.cur].type = "LYWSD03MMC"
         /\ Len(flusher.merged) = 1
         /\ DOMAIN flusher.merged[1] = {"temperature", "humidity", "battery_pct"}) =>
            /\ flusher.merged[1] = ExampleFields
            /\ flusher.fields = ExampleFields
            /\ \/ flusher.pc = "write"
               \/ /\ flusher.pc = "flushed"
                  /\ Len(sink) >= 1
                  /\ sink[Len(sink)].fields = ExampleFields
                  /\ ConfiguredAs(flusher.cur, sink[Len(sink)].name)
    /\ (FlushReturned /\ flusher.merged = <<>>) =>
            flusher.pc = "flushed" /\ flusher.fields = EmptyData

C12_OneRecordPerFlush ==
    sink' # sink =>
        /\ flusher.pc = "write"
        /\ flusher'.pc = "flushed"
        /\ Len(sink') = Len(sink) + 1
        /\ SubSeq(sink', 1, Len(sink)) = sink
        /\ sink'[Len(sink')].fields = flusher.fields
        /\ ConfiguredAs(flusher.cur, sink'[Len(sink')].name)

C12_EndToEndVariantA ==
    /\ []C12_RecordOfOnePayload
    /\ [][C12_OneRecordPerFlush]_vars

\* the point of the one advertisement of "attic" has just been written
C12_Witness ==
    /\ ~dryRun
    /\ flusher.pc = "flushed"
    /\ flusher.cur = <<"a", "a">>
    /\ flusher.merged = <<ExampleFields>>
    /\ sink = <<[name |-> "attic", fields |-> ExampleFields, err |-> FALSE]>>
    /\ sensors[<<"a", "a">>].data = EmptyData

(***************************************************************************)
(* C15: a configuration with a sensor of unknown type is fatal at startup.  *)
(* With such a configuration main never reaches ble.Scan: no advertisement  *)
(* is delivered or filtered, no handler runs, the flush goroutine is never  *)
(* started and the Sink receives nothing; and log.Fatalf was called for     *)
(* nothing but an unknown type.                                              *)
(***************************************************************************)
HasUnknownType(c) == \E i \in DOMAIN c : c[i].Type \notin {"LYWSD03MMC", "LYWSDCGQ/01ZM"}

C15_UnknownTypeIsFatal ==
    /\ HasUnknownType(conf) =>
            /\ mainPc \in {"register", "fatal"}
            /\ flusher = IdleFlusher
            /\ \A h \in Handlers : handlers[h] = IdleHandler
            /\ advCount = 0 /\ nDropped = 0
            /\ sink = <<>>
            /\ \A m \in DOMAIN sensors : sensors[m].data = EmptyData
    /\ mainPc = "fatal" =>
            /\ regIdx \in DOMAIN conf
            /\ conf[regIdx].Type \notin {"LYWSD03MMC", "LYWSDCGQ/01ZM"}

\* the first sensor was registered, the second has the unknown type
C15_Witness ==
    /\ mainPc = "fatal"
    /\ regIdx = 2
    /\ DOMAIN sensors = {<<"a", "a">>}

(***************************************************************************)
(* C17: the accumulator invariant.  In every reachable state the map of a   *)
(* sensor holds, for each field name, the value of the last merge since     *)
(* the sensor's last flush that contained the field, and no other field:    *)
(* the merges that returned, in their order, and of a merge in progress     *)
(* the fields it has written so far; once flush has reset the map it is     *)
(* empty.  The blocks of one advertisement are merges in the order of the   *)
(* blocks, so the last block wins.                                           *)
(***************************************************************************)
LastWriteWins(data, fields, names) ==
    [k \in DOMAIN data \cup names |-> IF k \in names THEN fields[k] ELSE data[k]]

RECURSIVE AfterMerges(_, _)
AfterMerges(evs, n) ==
    IF n = 0 THEN EmptyData
    ELSE LastWriteWins(AfterMerges(evs, n - 1), evs[n], DOMAIN evs[n])

ExpectedData(m) ==
    LET base == AfterMerges(since[m], Len(since[m]))
    IN  IF sensors[m].mu \in Handlers
        THEN LET h == sensors[m].mu
             IN  LastWriteWins(base, handlers[h].fields,
                               DOMAIN handlers[h].fields \ handlers[h].left)
        ELSE IF sensors[m].mu = "flusher" /\ flusher.pc = "unlock" THEN EmptyData
        ELSE base

C17_AccumulatorLastWriteWins ==
    \A m \in DOMAIN sensors : sensors[m].data = ExpectedData(m)

\* one advertisement with two temperature/humidity blocks: the values of the
\* second block are in the map
C17_Witness ==
    /\ advCount = 1
    /\ <<"b", "b">> \in DOMAIN sensors
    /\ Len(since[<<"b", "b">>]) = 2
    /\ since[<<"b", "b">>][1]["temperature"] = [n |-> -10, d |-> 10]
    /\ sensors[<<"b", "b">>].mu = "free"
    /\ sensors[<<"b", "b">>].data =
            [k \in {"temperature", "humidity"} |->
                IF k = "temperature" THEN [n |-> 215, d |-> 10] ELSE [n |-> 400, d |-> 10]]

(***************************************************************************)
(* C19: the flush goroutine holds the mutex of a sensor only inside flush.  *)
(* While a point is being written no mutex is held by the flush goroutine,  *)
(* so that only handler goroutines can make a processAdv call wait, and a   *)
(* mutex held by the flush goroutine is that of the sensor it is flushing,  *)
(* between the Lock and the return of flush.                                 *)
(***************************************************************************)
C19_NoLockHeldDuringWrite ==
    /\ flusher.pc = "write" => \A m \in DOMAIN sensors : sensors[m].mu # "flusher"
    /\ \A m \in DOMAIN sensors : sensors[m].mu = "flusher" =>
            flusher.cur = m /\ flusher.pc \in {"reset", "unlock"}
    /\ \A h \in Handlers :
            (flusher.pc = "write" /\ handlers[h].pc = "lock"
                /\ sensors[handlers[h].s].mu \notin Handlers) =>
                    sensors[handlers[h].s].mu = "free"

\* the write of a point is pending and a processAdv call on the same sensor
\* has run to its end since flush returned
C19_Witness ==
    /\ flusher.pc = "write"
    /\ Len(since[flusher.cur]) = 1
    /\ sensors[flusher.cur].mu = "free"
    /\ sensors[flusher.cur].data = since[flusher.cur][1]
    /\ sensors[flusher.cur].data # EmptyData

(***************************************************************************)
(* C18: on shutdown a flush tick that is running finishes before the        *)
(* process exits.  The process exits only while the flush goroutine waits   *)
(* for its ticker: not while it is draining a sensor, not with a point      *)
(* still to write, not with sensors of the tick still to drain.             *)
(***************************************************************************)
C18_ShutdownLetsTickFinish ==
    [][(mainPc = "scan" /\ mainPc' = "exited") => flusher.pc = "tick"]_vars

(***************************************************************************)
(* The history of a poll cycle, for the claims about the active poller.    *)
(***************************************************************************)
\* strconv.ParseFloat accepts the value of every pair and the pairs fit res
ParsesWell(n) ==
    /\ Len(n) \in 1..2
    /\ \A i \in DOMAIN n : Len(n[i]) >= 2 /\ n[i][2].numeric

NonNumeric(n) == \E i \in DOMAIN n : Len(n[i]) >= 2 /\ ~n[i][2].numeric

AllSucceeded(s) ==
    /\ pCycle[s].dial = "ok"
    /\ pCycle[s].discover = "ok"
    /\ pCycle[s].battery = "ok"
    /\ pCycle[s].wait = "notification"
    /\ ParsesWell(pCycle[s].n)

\* past the send, or past the return that skipped it
CycleEnding(s) == pPc[s] \in {"cancel", "waitdone", "unlock"}

(***************************************************************************)
(* C13: a poll cycle sends a Result if and only if the dial, the profile    *)
(* discovery, the battery read and the wait for the notification with its   *)
(* parsing all succeeded, and then exactly one, which carries the battery   *)
(* level read and the values of the notification.  After a notification     *)
(* with a non-numeric value, or a timeout, the cycle is on its way out      *)
(* with nothing sent and the process running.                               *)
(***************************************************************************)
C13_ResultIffAllSucceeded ==
    \A s \in PollSensors :
        /\ pCycle[s].sent <= 1
        /\ pCycle[s].sent = 1 => AllSucceeded(s)
        /\ (CycleEnding(s) /\ AllSucceeded(s)) => pCycle[s].sent = 1
        /\ (\/ pCycle[s].wait = "timeout"
            \/ pCycle[s].wait = "notification" /\ NonNumeric(pCycle[s].n)) =>
                /\ pCycle[s].sent = 0
                /\ pPc[s] \in {"cancel", "unlock"}
                /\ pCrashed = "no"
        /\ (pCycle[s].sent = 1 /\ cPc = "write" /\ cRec.Name = s) =>
                /\ cRec.BatteryPct = pCycle[s].pct
                /\ cRec.Temperature = pCycle[s].n[1][2].v
                /\ cRec.Humidity =
                        IF Len(pCycle[s].n) = 2 THEN pCycle[s].n[2][2].v ELSE 0

\* "T=23.7 H=n/a" ended the cycle of s1 with nothing sent, while the Result of
\* an earlier cycle of s2 is with the consumer
C13_Witness ==
    /\ pPc["s1"] = "unlock"
    /\ pCycle["s1"].n = NotifNonNumeric
    /\ pCycle["s1"].sent = 0
    /\ cPc = "write"
    /\ cRec.Name = "s2"
    /\ cRec.Humidity = 552

(***************************************************************************)
(* C16: in a successful cycle the Result is handed to the consumer after    *)
(* the disconnection and after the release of the mutex: a sensor at its    *)
(* send on the results channel does not hold the mutex and its connection   *)
(* is not open.                                                              *)
(***************************************************************************)
C16_EmitAfterDisconnectAndUnlock ==
    \A s \in PollSensors : pPc[s] = "send" => (pMutex # s /\ pConn[s] # "open")

(***************************************************************************)
(* C14: a failed dial skips this cycle only.  After ble.Dial returned an    *)
(* error the cycle does nothing but return: no connection was opened by     *)
(* it, no further call is made and no Result is sent; and, as long as the   *)
(* process runs, the mutex is released, the sensor comes back to            *)
(* mutex.Lock for its next cycle, and any other sensor that was waiting in  *)
(* mutex.Lock gets the mutex.                                                *)
(***************************************************************************)
DialFailed(s) == pCycle[s].dial = "error"

C14_DialFailureState ==
    \A s \in PollSensors : DialFailed(s) =>
        /\ pPc[s] = "unlock"
        /\ pMutex = s
        /\ pCycle[s] = [NoCycle EXCEPT !.dial = "error"]
        /\ pRead[s] = NoRead

C14_DialFailureSkipsCycle ==
    /\ []C14_DialFailureState
    /\ \A s \in PollSensors :
        /\ DialFailed(s) ~> ((pMutex = "free" /\ pPc[s] = "ticker") \/ pCrashed # "no")
        /\ DialFailed(s) ~> (pPc[s] = "lock" \/ pCrashed # "no")
        /\ \A t \in PollSensors \ {s} :
                (DialFailed(s) /\ pPc[t] = "lock") ~> (pMutex = t \/ pCrashed # "no")

\* the dial of s1 failed while s2 waits for the mutex
C14_Witness ==
    /\ DialFailed("s1")
    /\ pPc["s1"] = "unlock"
    /\ pPc["s2"] = "lock"
    /\ pConn["s1"] = "none"

(***************************************************************************)
(* C20: the mutex is always released and always obtained.  Under the        *)
(* fairness of SpecPollFair and as long as the process runs, a sensor that  *)
(* holds the mutex releases it, whatever the outcome of its cycle, and a    *)
(* sensor waiting in mutex.Lock gets the mutex: the pollers and the         *)
(* consumer of the results channel do not block each other for ever.        *)
(***************************************************************************)
C20_MutexReleasedAndObtained ==
    \A s \in PollSensors :
        /\ (pMutex = s) ~> (pMutex # s \/ pCrashed # "no")
        /\ (pPc[s] = "lock") ~> (pMutex = s \/ pCrashed # "no")
        /\ (pPc[s] = "send") ~> (pPc[s] = "cancel" \/ pCrashed # "no")

\* s1 holds the mutex and is blocked in its send, because the consumer is
\* still writing the Result of the last cycle of s2, and s2 waits for the mutex
C20_Witness ==
    /\ pMutex = "s1"
    /\ pPc["s1"] = "send"
    /\ cPc = "write"
    /\ cRec.Name = "s2"
    /\ pPc["s2"] = "lock"

=============================================================================
